---- MODULE Spec2Model ----
(***************************************************************************)
(* A model of the invoice settlement engine of twh_racing_part: one        *)
(* twh.invoice with its lines, its twh.payment records, its commission     *)
(* records and its due reminders.  Money is an integer number of currency  *)
(* units; the unit prices and discounts used keep subtotal *               *)
(* discount_percent / 100 a whole number.  A date is an integer            *)
(* day number; an unset date (False) is the empty sequence, a set date d   *)
(* is <<d>>.  An operation that raises leaves the database as it was at    *)
(* the start of the operation (the ORM runs each call in one transaction). *)
(***************************************************************************)
EXTENDS Integers, Sequences, FiniteSets, TLC

\* Bounds of the model.
MaxLines == 1
MaxPayments == 2
MaxAmount == 2
NumProcs == 2
MaxCommLines == 2

VARIABLES invoice, payments, commissions, reminders, today, proc, last

vars == <<invoice, payments, commissions, reminders, today, proc, last>>

----------------------------------------------------------------------------
\* Values

\* The lines added to the invoice, as <<product, quantity, unit price>>.
LineInputs == {<<"p1", 1, 2>>}
\* The line of the invoice that concurrent payments are made on.
LineInputsConc == {<<"p1", 1, 2>>, <<"p1", 2, 2>>}
\* The lines added where commissions are examined: with p1 (cost 1) a
\* negative, a zero and a positive margin, with p2 (no cost) a zero and a
\* positive one.
CommLineInputs == {<<"p1", 1, 0>>, <<"p1", 1, 1>>, <<"p1", 2, 2>>,
                   <<"p2", 1, 0>>, <<"p2", 2, 1>>}
\* The lines, quantities and discounts used where the amounts are examined;
\* with unit prices that are multiples of 4 every discount is a whole number.
TotLineInputs == {<<"p1", 0, 4>>, <<"p1", 1, 4>>, <<"p1", 2, 8>>, <<"p2", 3, 4>>}
TotQuantities == {0, 2}
TotDiscountInputs == {0, 25, 50, 100}
\* The discounts written to the invoice.
DiscountInputs == {0, 100}
Amounts == 0..MaxAmount
PaymentIds == 1..MaxPayments
Procs == 1..NumProcs

NoDate == <<>>
NoPayment == [amount |-> 0, state |-> "none"]

\* product.twh_price_ids: p1 has a price in tier 'bayu', p2 has none.
TwhPriceIds(product) ==
    IF product = "p1" THEN {[tier_code |-> "bayu", price |-> 1],
                            [tier_code |-> "price_a", price |-> 2]}
    ELSE {[tier_code |-> "price_a", price |-> 2]}

GetPriceByTier(product, tier_code) ==
    LET price_line == {l \in TwhPriceIds(product) : l.tier_code = tier_code}
    IN IF price_line # {} THEN (CHOOSE l \in price_line : TRUE).price ELSE 0

----------------------------------------------------------------------------
\* Arithmetic helpers

RECURSIVE GCD(_, _)
GCD(a, b) == IF b = 0 THEN a ELSE GCD(b, a % b)

\* The real number num / den (den > 0), as a reduced fraction.
Frac(num, den) ==
    LET g == GCD(IF num < 0 THEN -num ELSE num, den)
    IN [num |-> num \div g, den |-> den \div g]

RECURSIVE SumSubtotals(_)
SumSubtotals(lines) ==
    IF lines = <<>> THEN 0
    ELSE Head(lines).subtotal + SumSubtotals(Tail(lines))

RECURSIVE SumAmounts(_, _)
SumAmounts(pays, ids) ==
    IF ids = {} THEN 0
    ELSE LET i == CHOOSE x \in ids : TRUE
         IN pays[i].amount + SumAmounts(pays, ids \ {i})

RemoveAt(s, i) == SubSeq(s, 1, i - 1) \o SubSeq(s, i + 1, Len(s))

----------------------------------------------------------------------------
\* twh.invoice.line

ComputeSubtotal(quantity, price_unit) == quantity * price_unit

NewLine(product, quantity, price_unit) ==
    [product_id |-> product, quantity |-> quantity, price_unit |-> price_unit,
     subtotal |-> ComputeSubtotal(quantity, price_unit)]

CheckQuantity(quantity) == quantity > 0

----------------------------------------------------------------------------
\* twh.invoice: computed fields

ComputeAmountsNoDiscount(inv) ==
    LET subtotal == SumSubtotals(inv.invoice_line_ids)
        discount_amount == (subtotal * inv.discount_percent) \div 100
    IN [inv EXCEPT !.subtotal = subtotal,
                   !.discount_amount = discount_amount,
                   !.total = subtotal]

ComputeAmounts(inv) ==
    LET subtotal == SumSubtotals(inv.invoice_line_ids)
        discount_amount == (subtotal * inv.discount_percent) \div 100
        total == subtotal - discount_amount
    IN [inv EXCEPT !.subtotal = subtotal,
                   !.discount_amount = discount_amount,
                   !.total = total]

ConfirmedPayments(pays) == {i \in DOMAIN pays : pays[i].state = "confirmed"}

PaymentProgress(paid_amount, total) ==
    IF total > 0 THEN Frac(paid_amount * 100, total) ELSE Frac(0, 1)

AutoStateStrictRemaining(state, paid_amount, remaining_amount) ==
    IF state \in {"confirmed", "partial", "overdue"}
    THEN IF remaining_amount < 0 THEN "paid"
         ELSE IF paid_amount > 0 THEN "partial"
         ELSE state
    ELSE state

AutoStateNoPartial(state, paid_amount, remaining_amount) ==
    IF state \in {"confirmed", "partial", "overdue"}
    THEN IF remaining_amount <= 0 THEN "paid"
         ELSE state
    ELSE state

AutoState(state, paid_amount, remaining_amount) ==
    IF state \in {"confirmed", "partial", "overdue"}
    THEN IF remaining_amount <= 0 THEN "paid"
         ELSE IF paid_amount > 0 THEN "partial"
         ELSE state
    ELSE state

ComputePaymentStatusMissingFilter(db) ==
    LET pays == db.payments
        paid_amount == SumAmounts(pays, DOMAIN pays)
        remaining_amount == db.invoice.total - paid_amount
    IN [db EXCEPT !.invoice.paid_amount = paid_amount,
                  !.invoice.remaining_amount = remaining_amount,
                  !.invoice.payment_progress =
                      PaymentProgress(paid_amount, db.invoice.total),
                  !.invoice.state =
                      AutoState(db.invoice.state, paid_amount, remaining_amount)]

ComputePaymentStatus(db) ==
    LET confirmed_payments == ConfirmedPayments(db.payments)
        paid_amount == SumAmounts(db.payments, confirmed_payments)
        remaining_amount == db.invoice.total - paid_amount
    IN [db EXCEPT !.invoice.paid_amount = paid_amount,
                  !.invoice.remaining_amount = remaining_amount,
                  !.invoice.payment_progress =
                      PaymentProgress(paid_amount, db.invoice.total),
                  !.invoice.state =
                      AutoState(db.invoice.state, paid_amount, remaining_amount)]

ComputeDueDate(inv) ==
    IF inv.payment_type = "cash" THEN [inv EXCEPT !.date_due = NoDate]
    ELSE IF inv.payment_term_days # 0
    THEN [inv EXCEPT !.date_due = <<inv.date_invoice + inv.payment_term_days>>]
    ELSE [inv EXCEPT !.date_due = NoDate]

\* A line or the discount changed: the stored amounts are recomputed, and
\* the payment status that depends on total after them.
RecomputeAfterEdit(db) ==
    ComputePaymentStatus([db EXCEPT !.invoice = ComputeAmounts(db.invoice)])

\* The result of an operation: it returned (ok) with the database db, or it
\* raised and the transaction is rolled back.
Ok(db) == [ok |-> TRUE, db |-> db]
Raise(db) == [ok |-> FALSE, db |-> db]

----------------------------------------------------------------------------
\* twh.payment

PaymentCheckAmount(amount) == amount > 0

\* The id the next created payment gets.
FreeIds(pays) == {i \in DOMAIN pays : pays[i] = NoPayment}
NextId(pays) == CHOOSE i \in FreeIds(pays) : \A j \in FreeIds(pays) : i <= j

\* write({'state': s}) and write({'amount': a}): the base write, then the
\* invoice's payment status is recomputed.
PaymentWriteState(db, id, state) ==
    ComputePaymentStatus([db EXCEPT !.payments[id].state = state])

PaymentWriteAmount(db, id, amount) ==
    LET db1 == [db EXCEPT !.payments[id].amount = amount]
    IN IF ~PaymentCheckAmount(amount) THEN Raise(db)
       ELSE Ok(ComputePaymentStatus(db1))

PaymentUnlink(db, ids) ==
    ComputePaymentStatus(
        [db EXCEPT !.payments = [i \in DOMAIN db.payments |->
                                    IF i \in ids THEN NoPayment
                                    ELSE db.payments[i]]])

PaymentActionConfirmNoRemainingCheck(db, id) ==
    LET payment == db.payments[id]
    IN IF payment.state # "draft" THEN Ok(db)
       ELSE IF payment.amount <= 0 THEN Raise(db)
       ELSE Ok(ComputePaymentStatus(PaymentWriteState(db, id, "confirmed")))

PaymentActionConfirmNoSkip(db, id) ==
    LET payment == db.payments[id]
    IN IF payment.amount <= 0 THEN Raise(db)
       ELSE IF payment.amount > db.invoice.remaining_amount THEN Raise(db)
       ELSE Ok(ComputePaymentStatus(PaymentWriteState(db, id, "confirmed")))

PaymentActionConfirm(db, id) ==
    LET payment == db.payments[id]
    IN IF payment.state # "draft" THEN Ok(db)
       ELSE IF payment.amount <= 0 THEN Raise(db)
       ELSE IF payment.amount > db.invoice.remaining_amount THEN Raise(db)
       ELSE Ok(ComputePaymentStatus(PaymentWriteState(db, id, "confirmed")))

PaymentCreateNoConfirm(db, amount) ==
    LET id == NextId(db.payments)
        db1 == ComputePaymentStatus(
                   [db EXCEPT !.payments[id] =
                       [amount |-> amount, state |-> "draft"]])
    IN IF ~PaymentCheckAmount(amount) THEN Raise(db) ELSE Ok(db1)

\* create(vals) with vals = {invoice_id, amount}: the record is inserted in
\* state draft (which marks the invoice's payment status for recomputation),
\* the constraint on amount is checked, and the payment is confirmed.
PaymentCreate(db, amount) ==
    LET id == NextId(db.payments)
        db1 == ComputePaymentStatus(
                   [db EXCEPT !.payments[id] =
                       [amount |-> amount, state |-> "draft"]])
    IN IF ~PaymentCheckAmount(amount) THEN Raise(db)
       ELSE PaymentActionConfirm(db1, id)

PaymentActionCancel(db, id) ==
    ComputePaymentStatus(PaymentWriteState(db, id, "cancelled"))

----------------------------------------------------------------------------
\* twh.invoice: commission

RECURSIVE CommissionsOfNonNegative(_)
CommissionsOfNonNegative(lines) ==
    IF lines = <<>> THEN <<>>
    ELSE LET line == Head(lines)
             cost_price == GetPriceByTier(line.product_id, "bayu")
             selling_price == line.price_unit
             margin == selling_price - cost_price
             commission_amount == margin * line.quantity
         IN (IF commission_amount >= 0
             THEN <<[product_id |-> line.product_id,
                     quantity |-> line.quantity,
                     cost_price |-> cost_price,
                     selling_price |-> selling_price,
                     margin |-> margin,
                     commission_amount |-> commission_amount]>>
             ELSE <<>>) \o CommissionsOfNonNegative(Tail(lines))

RECURSIVE CommissionsOf(_)
CommissionsOf(lines) ==
    IF lines = <<>> THEN <<>>
    ELSE LET line == Head(lines)
             cost_price == GetPriceByTier(line.product_id, "bayu")
             selling_price == line.price_unit
             margin == selling_price - cost_price
             commission_amount == margin * line.quantity
         IN (IF commission_amount > 0
             THEN <<[product_id |-> line.product_id,
                     quantity |-> line.quantity,
                     cost_price |-> cost_price,
                     selling_price |-> selling_price,
                     margin |-> margin,
                     commission_amount |-> commission_amount]>>
             ELSE <<>>) \o CommissionsOf(Tail(lines))

CreateCommissionNoUnlink(db) ==
    [db EXCEPT !.commissions = @ \o CommissionsOf(db.invoice.invoice_line_ids)]

\* commission_ids.unlink(), then one record per line with a positive amount.
CreateCommission(db) ==
    [db EXCEPT !.commissions = CommissionsOf(db.invoice.invoice_line_ids)]

----------------------------------------------------------------------------
\* twh.invoice: actions

InvoiceActionConfirmNoLineCheck(db) ==
    LET db1 == CreateCommission([db EXCEPT !.invoice.state = "confirmed"])
    IN IF db1.invoice.payment_type = "cash"
       THEN PaymentCreate(db1, db1.invoice.total)
       ELSE Ok(db1)

InvoiceActionConfirm(db) ==
    IF db.invoice.invoice_line_ids = <<>> THEN Raise(db)
    ELSE LET db1 == CreateCommission([db EXCEPT !.invoice.state = "confirmed"])
         IN IF db1.invoice.payment_type = "cash"
            THEN PaymentCreate(db1, db1.invoice.total)
            ELSE Ok(db1)

InvoiceActionMarkPaid(db) == [db EXCEPT !.invoice.state = "paid"]

InvoiceActionCancelKeepPayments(db) ==
    [db EXCEPT !.invoice.state = "cancelled", !.commissions = <<>>]

InvoiceActionCancel(db) ==
    LET db1 == [db EXCEPT !.invoice.state = "cancelled", !.commissions = <<>>]
    IN PaymentUnlink(db1, {i \in DOMAIN db1.payments : db1.payments[i] # NoPayment})

InvoiceActionSetToDraft(db) == [db EXCEPT !.invoice.state = "draft"]

----------------------------------------------------------------------------
\* twh.invoice.line: create and unlink; twh.invoice: write of discount_percent

LineCreate(db, product, quantity, price_unit) ==
    IF ~CheckQuantity(quantity) THEN Raise(db)
    ELSE Ok(RecomputeAfterEdit(
             [db EXCEPT !.invoice.invoice_line_ids =
                 Append(@, NewLine(product, quantity, price_unit))]))

LineUnlink(db, i) ==
    RecomputeAfterEdit(
        [db EXCEPT !.invoice.invoice_line_ids = RemoveAt(@, i)])

\* write of quantity on the line i: the constraint on quantity, the line's
\* subtotal, the invoice's amounts.
LineWriteQuantity(db, i, quantity) ==
    IF ~CheckQuantity(quantity) THEN Raise(db)
    ELSE Ok(RecomputeAfterEdit(
             [db EXCEPT !.invoice.invoice_line_ids[i] =
                 NewLine(@.product_id, quantity, @.price_unit)]))

InvoiceWriteDiscount(db, discount_percent) ==
    RecomputeAfterEdit([db EXCEPT !.invoice.discount_percent = discount_percent])

----------------------------------------------------------------------------
\* twh.due.reminder: the create-reminders sweep

\* The reminders are the records of twh.due.reminder of the invoice, in the
\* order of their creation; search() returns the positions of the matches.
ExistingReminders(rems, reminder_type, date) ==
    {i \in 1..Len(rems) : /\ rems[i].reminder_type = reminder_type
                          /\ rems[i].reminder_date = date}

NewReminder(reminder_type, date, days_until_due) ==
    [reminder_type |-> reminder_type, reminder_date |-> date,
     days_before_due |-> days_until_due, state |-> "pending"]

CreateOverdueReminder(db, date, days_until_due) ==
    IF ExistingReminders(db.reminders, "overdue", date) = {}
    THEN [db EXCEPT !.reminders = Append(@, NewReminder("overdue", date, days_until_due)),
                    !.invoice.state = "overdue"]
    ELSE db

CreateDailyReminderNoCheck(db, date, days_until_due) ==
    [db EXCEPT !.reminders = Append(@, NewReminder("daily", date, days_until_due))]

CreateDailyReminder(db, date, days_until_due) ==
    IF ExistingReminders(db.reminders, "daily", date) = {}
    THEN [db EXCEPT !.reminders = Append(@, NewReminder("daily", date, days_until_due))]
    ELSE db

TypeMapping(days_until_due) ==
    CASE days_until_due = 7 -> "7_days"
      [] days_until_due = 3 -> "3_days"
      [] days_until_due = 0 -> "due_date"
      [] OTHER -> "none"

CreateMilestoneReminder(db, date, days_until_due) ==
    LET reminder_type == TypeMapping(days_until_due)
    IN IF reminder_type = "none" THEN db
       ELSE IF ExistingReminders(db.reminders, reminder_type, date) = {}
       THEN [db EXCEPT !.reminders =
                 Append(@, NewReminder(reminder_type, date, days_until_due))]
       ELSE db

ProcessInvoiceRemindersBefore14(db, date) ==
    IF db.invoice.date_due = NoDate THEN db
    ELSE LET days_until_due == db.invoice.date_due[1] - date
         IN IF days_until_due < 0
            THEN CreateOverdueReminder(db, date, days_until_due)
            ELSE IF days_until_due < 14
            THEN LET db1 == CreateDailyReminder(db, date, days_until_due)
                 IN IF days_until_due \in {7, 3, 0}
                    THEN CreateMilestoneReminder(db1, date, days_until_due)
                    ELSE db1
            ELSE db

ProcessInvoiceReminders(db, date) ==
    IF db.invoice.date_due = NoDate THEN db
    ELSE LET days_until_due == db.invoice.date_due[1] - date
         IN IF days_until_due < 0
            THEN CreateOverdueReminder(db, date, days_until_due)
            ELSE IF days_until_due <= 14
            THEN LET db1 == CreateDailyReminder(db, date, days_until_due)
                 IN IF days_until_due \in {7, 3, 0}
                    THEN CreateMilestoneReminder(db1, date, days_until_due)
                    ELSE db1
            ELSE db

IsTempoInvoiceAnyState(inv) ==
    /\ inv.payment_type = "tempo"
    /\ inv.date_due # NoDate

IsUnpaidTempoInvoice(inv) ==
    /\ inv.payment_type = "tempo"
    /\ inv.state \in {"confirmed", "partial", "overdue"}
    /\ inv.date_due # NoDate

CronCreateReminders(db, date) ==
    IF IsUnpaidTempoInvoice(db.invoice)
    THEN ProcessInvoiceReminders(db, date)
    ELSE db

----------------------------------------------------------------------------
\* twh.due.reminder: create, send, dismiss, the send sweep, the cleanup sweep

\* create(vals) with the default days_before_due; the unique constraint on
\* (invoice_id, reminder_type, reminder_date) rejects a second record.
ReminderCreate(db, reminder_type, date) ==
    IF ExistingReminders(db.reminders, reminder_type, date) # {} THEN Raise(db)
    ELSE Ok([db EXCEPT !.reminders = Append(@, NewReminder(reminder_type, date, 7))])

\* _send_activity_reminder and _send_message_reminder: the activity and the
\* message belong to the mail models, which are not part of the database of
\* the model; fails tells whether the call into them raises, and the
\* try/except of the method catches what it raises.
SendActivityReminder(db, i, fails) == Ok(db)

SendMessageReminderUncaught(db, i, fails) == IF fails THEN Raise(db) ELSE Ok(db)

SendMessageReminder(db, i, fails) == Ok(db)

\* action_send_reminder on the reminder i.
ActionSendReminder(db, i, activity_fails, message_fails) ==
    LET r1 == SendActivityReminder(db, i, activity_fails)
    IN IF ~r1.ok THEN Raise(db)
       ELSE LET r2 == SendMessageReminder(r1.db, i, message_fails)
            IN IF ~r2.ok THEN Raise(db)
               ELSE Ok([r2.db EXCEPT !.reminders[i].state = "sent"])

ActionDismiss(db, i) == [db EXCEPT !.reminders[i].state = "dismissed"]

\* search([('state', '=', 'pending'), ('reminder_date', '<=', today)])
PendingDue(rems, date) ==
    {i \in 1..Len(rems) : rems[i].state = "pending" /\ rems[i].reminder_date <= date}

\* The loop of _cron_send_reminders over ids: an exception of
\* action_send_reminder is caught and logged, and the loop goes on.
RECURSIVE SendEach(_, _, _, _)
SendEach(db, ids, activity_fails, message_fails) ==
    IF ids = {} THEN db
    ELSE LET i == CHOOSE x \in ids : \A y \in ids : x <= y
             r == ActionSendReminder(db, i, i \in activity_fails, i \in message_fails)
         IN SendEach(IF r.ok THEN r.db ELSE db, ids \ {i},
                     activity_fails, message_fails)

CronSendReminders(db, date, activity_fails, message_fails) ==
    SendEach(db, PendingDue(db.reminders, date), activity_fails, message_fails)

CronCleanupPaidInvoicesAnyState(db) ==
    [db EXCEPT !.reminders =
        [i \in 1..Len(@) |->
            IF @[i].state = "pending"
            THEN [@[i] EXCEPT !.state = "dismissed"] ELSE @[i]]]

\* search([('invoice_id.state', '=', 'paid'), ('state', '=', 'pending')]),
\* then write({'state': 'dismissed'}) on what was found.
CronCleanupPaidInvoices(db) ==
    [db EXCEPT !.reminders =
        [i \in 1..Len(@) |->
            IF db.invoice.state = "paid" /\ @[i].state = "pending"
            THEN [@[i] EXCEPT !.state = "dismissed"] ELSE @[i]]]

----------------------------------------------------------------------------
\* The state machine

\* A new invoice, as create() stores it: draft, no line, the computed fields
\* computed.
NewInvoice(payment_type, date_invoice, payment_term_days) ==
    ComputeDueDate(ComputeAmounts(
        [state |-> "draft",
         payment_type |-> payment_type,
         date_invoice |-> date_invoice,
         payment_term_days |-> payment_term_days,
         date_due |-> NoDate,
         invoice_line_ids |-> <<>>,
         discount_percent |-> 0,
         subtotal |-> 0,
         discount_amount |-> 0,
         total |-> 0,
         paid_amount |-> 0,
         remaining_amount |-> 0,
         payment_progress |-> Frac(0, 1)]))

NewDB(inv) ==
    [invoice |-> inv,
     payments |-> [i \in PaymentIds |-> NoPayment],
     commissions |-> <<>>,
     reminders |-> <<>>]

DB == [invoice |-> invoice, payments |-> payments,
       commissions |-> commissions, reminders |-> reminders]

IdleProcs == [p \in Procs |-> [pc |-> "idle", amount |-> 0, id |-> 0]]

\* The header of the invoice under test: cash, or tempo issued three days
\* ago with a term of two days, which ended yesterday.
InitHeaders == {<<"cash", 0>>, <<"tempo", 2>>}

Init ==
    /\ today = 0
    /\ \E h \in InitHeaders :
          invoice = NewInvoice(h[1], today - 3, h[2])
    /\ payments = [i \in PaymentIds |-> NoPayment]
    /\ commissions = <<>>
    /\ reminders = <<>>
    /\ proc = IdleProcs
    /\ last = [op |-> "create", ok |-> TRUE, amount |-> 0, from |-> "draft"]

\* A call on the database DB ended as r: r.db is committed when it returned
\* and DB is kept when it raised.
Apply(r) ==
    /\ invoice' = IF r.ok THEN r.db.invoice ELSE invoice
    /\ payments' = IF r.ok THEN r.db.payments ELSE payments
    /\ commissions' = IF r.ok THEN r.db.commissions ELSE commissions
    /\ reminders' = IF r.ok THEN r.db.reminders ELSE reminders
    /\ UNCHANGED <<today, proc>>

\* The operation op, called with amount, ended as r.
Commit(op, amount, r) ==
    /\ Apply(r)
    /\ last' = [op |-> op, ok |-> r.ok, amount |-> amount, from |-> invoice.state]

AddLine(product, quantity, price_unit) ==
    /\ Len(invoice.invoice_line_ids) < MaxLines
    /\ Commit("line_create", 0, LineCreate(DB, product, quantity, price_unit))

RemoveLine(i) ==
    /\ i \in 1..Len(invoice.invoice_line_ids)
    /\ Commit("line_unlink", 0, Ok(LineUnlink(DB, i)))

WriteDiscount(discount_percent) ==
    /\ discount_percent # invoice.discount_percent
    /\ Commit("write_discount", 0, Ok(InvoiceWriteDiscount(DB, discount_percent)))

ConfirmInvoice ==
    /\ (invoice.payment_type = "cash" /\ invoice.invoice_line_ids # <<>>)
           => FreeIds(payments) # {}
    /\ Commit("invoice_confirm", 0, InvoiceActionConfirm(DB))

MarkPaid == Commit("mark_paid", 0, Ok(InvoiceActionMarkPaid(DB)))

CancelInvoice == Commit("invoice_cancel", 0, Ok(InvoiceActionCancel(DB)))

SetToDraft == Commit("set_to_draft", 0, Ok(InvoiceActionSetToDraft(DB)))

RecordPayment(amount) ==
    /\ FreeIds(payments) # {}
    /\ Commit("payment_create", amount, PaymentCreate(DB, amount))

ConfirmPayment(id) ==
    /\ payments[id] # NoPayment
    /\ Commit("payment_confirm", 0, PaymentActionConfirm(DB, id))

CancelPayment(id) ==
    /\ payments[id] # NoPayment
    /\ Commit("payment_cancel", 0, Ok(PaymentActionCancel(DB, id)))

DeletePayment(id) ==
    /\ payments[id] # NoPayment
    /\ Commit("payment_unlink", 0, Ok(PaymentUnlink(DB, {id})))

RewriteAmount(id, amount) ==
    /\ payments[id] # NoPayment
    /\ amount # payments[id].amount
    /\ Commit("payment_write_amount", amount, PaymentWriteAmount(DB, id, amount))

CreateRemindersSweep ==
    Commit("cron_create_reminders", 0, Ok(CronCreateReminders(DB, today)))

Next ==
    \/ \E l \in LineInputs : AddLine(l[1], l[2], l[3])
    \/ \E i \in 1..MaxLines : RemoveLine(i)
    \/ \E d \in DiscountInputs : WriteDiscount(d)
    \/ ConfirmInvoice
    \/ MarkPaid
    \/ CancelInvoice
    \/ SetToDraft
    \/ \E a \in Amounts : RecordPayment(a)
    \/ \E id \in PaymentIds : ConfirmPayment(id)
    \/ \E id \in PaymentIds : CancelPayment(id)
    \/ \E id \in PaymentIds : DeletePayment(id)
    \/ \E id \in PaymentIds, a \in Amounts : RewriteAmount(id, a)
    \/ CreateRemindersSweep

Spec == Init /\ [][Next]_vars

----------------------------------------------------------------------------
\* Concurrent payment creations on one confirmed invoice.  Each process runs
\* Payment.create in a transaction of its own; the source takes no lock, so
\* the steps of two transactions interleave: the insert of the draft
\* payment, the two validations of action_confirm, and the write of state
\* confirmed with the recomputation of the invoice.

ConfirmedTempoInvoice(line) ==
    LET db0 == NewDB(NewInvoice("tempo", -3, 2))
        db1 == LineCreate(db0, line[1], line[2], line[3]).db
    IN InvoiceActionConfirm(db1).db

InitConc ==
    /\ today = 0
    /\ \E l \in LineInputsConc :
          /\ invoice = ConfirmedTempoInvoice(l).invoice
          /\ commissions = ConfirmedTempoInvoice(l).commissions
    /\ payments = [i \in PaymentIds |-> NoPayment]
    /\ reminders = <<>>
    /\ proc = IdleProcs
    /\ last = [op |-> "invoice_confirm", ok |-> TRUE, amount |-> 0, from |-> "draft"]

\* create(): lines 134-138, the insert and the constraint on amount.
TxnCreate(p, amount) ==
    /\ proc[p].pc = "idle"
    /\ FreeIds(payments) # {}
    /\ IF PaymentCheckAmount(amount)
       THEN LET id == NextId(payments)
            IN /\ payments' = [payments EXCEPT ![id] =
                                  [amount |-> amount, state |-> "draft"]]
               /\ proc' = [proc EXCEPT ![p] =
                              [pc |-> "created", amount |-> amount, id |-> id]]
       ELSE /\ proc' = [proc EXCEPT ![p] =
                           [pc |-> "failed", amount |-> amount, id |-> 0]]
            /\ UNCHANGED payments
    /\ UNCHANGED <<invoice, commissions, reminders, today, last>>

\* action_confirm(): lines 189-203, the validations against the invoice's
\* remaining_amount as it reads now; a raise rolls the insert back.
TxnCheck(p) ==
    /\ proc[p].pc = "created"
    /\ LET payment == payments[proc[p].id]
       IN IF payment.amount <= 0 \/ payment.amount > invoice.remaining_amount
          THEN /\ payments' = [payments EXCEPT ![proc[p].id] = NoPayment]
               /\ proc' = [proc EXCEPT ![p].pc = "failed"]
          ELSE /\ proc' = [proc EXCEPT ![p].pc = "checked"]
               /\ UNCHANGED payments
    /\ UNCHANGED <<invoice, commissions, reminders, today, last>>

\* action_confirm(): lines 205-209, the write and the recomputation.
TxnConfirm(p) ==
    /\ proc[p].pc = "checked"
    /\ LET db == ComputePaymentStatus(PaymentWriteState(DB, proc[p].id, "confirmed"))
       IN /\ invoice' = db.invoice
          /\ payments' = db.payments
    /\ proc' = [proc EXCEPT ![p].pc = "done"]
    /\ UNCHANGED <<commissions, reminders, today, last>>

NextConc ==
    \/ \E p \in Procs, a \in Amounts : TxnCreate(p, a)
    \/ \E p \in Procs : TxnCheck(p)
    \/ \E p \in Procs : TxnConfirm(p)

SpecConc == InitConc /\ [][NextConc]_vars

----------------------------------------------------------------------------
\* Commissions over confirmations, resets to draft and edits of the lines.
\* The record of the last call also holds the number of commission records
\* the invoice had before the call (prior).

CommitComm(op, r) ==
    /\ Apply(r)
    /\ last' = [op |-> op, ok |-> r.ok, amount |-> 0, from |-> invoice.state,
                prior |-> Len(commissions)]

AddCommLine(product, quantity, price_unit) ==
    /\ Len(invoice.invoice_line_ids) < MaxCommLines
    /\ CommitComm("line_create", LineCreate(DB, product, quantity, price_unit))

RemoveCommLine(i) ==
    /\ i \in 1..Len(invoice.invoice_line_ids)
    /\ CommitComm("line_unlink", Ok(LineUnlink(DB, i)))

ConfirmCommInvoice ==
    /\ (invoice.payment_type = "cash" /\ invoice.invoice_line_ids # <<>>)
           => FreeIds(payments) # {}
    /\ CommitComm("invoice_confirm", InvoiceActionConfirm(DB))

SetCommToDraft == CommitComm("set_to_draft", Ok(InvoiceActionSetToDraft(DB)))

NextComm ==
    \/ \E l \in CommLineInputs : AddCommLine(l[1], l[2], l[3])
    \/ \E i \in 1..MaxCommLines : RemoveCommLine(i)
    \/ ConfirmCommInvoice
    \/ SetCommToDraft

SpecComm == Init /\ [][NextComm]_vars

----------------------------------------------------------------------------
\* The reminders of one invoice under the three sweeps and the calls on a
\* single reminder.  The record of the last call also holds the positions of
\* the reminders the call created or wrote (changed) and of those whose
\* activity or message could not be delivered (failed).

\* The header of the invoice as <<payment type, term in days>>; the invoice
\* is issued three days ago, so that it is due yesterday, today, in 3, 7, 14
\* or 15 days, or has no due date.
RemHeaders == {<<"cash", 0>>, <<"tempo", 0>>, <<"tempo", 2>>, <<"tempo", 3>>,
               <<"tempo", 6>>, <<"tempo", 10>>, <<"tempo", 17>>, <<"tempo", 18>>}

\* The reminders created by hand, as <<type, days from today>>.
ManualReminderInputs == {<<"daily", 1>>}

InitRem ==
    /\ today = 0
    /\ \E h \in RemHeaders :
          invoice = NewInvoice(h[1], today - 3, h[2])
    /\ payments = [i \in PaymentIds |-> NoPayment]
    /\ commissions = <<>>
    /\ reminders = <<>>
    /\ proc = IdleProcs
    /\ last = [op |-> "create", ok |-> TRUE, amount |-> 0, from |-> "draft"]

CommitRem(op, r, failed) ==
    /\ Apply(r)
    /\ last' = [op |-> op, ok |-> r.ok, amount |-> 0, from |-> invoice.state,
                changed |-> IF r.ok
                            THEN {i \in 1..Len(r.db.reminders) :
                                     \/ i > Len(reminders)
                                     \/ r.db.reminders[i] # reminders[i]}
                            ELSE {},
                failed |-> failed]

RunCreateReminders ==
    CommitRem("cron_create_reminders", Ok(CronCreateReminders(DB, today)), {})

RunSendReminders(activity_fails, message_fails) ==
    /\ activity_fails \cup message_fails \subseteq PendingDue(reminders, today)
    /\ CommitRem("cron_send_reminders",
                 Ok(CronSendReminders(DB, today, activity_fails, message_fails)),
                 activity_fails \cup message_fails)

RunCleanup ==
    CommitRem("cron_cleanup_paid_invoices", Ok(CronCleanupPaidInvoices(DB)), {})

CreateReminder(reminder_type, days) ==
    CommitRem("reminder_create", ReminderCreate(DB, reminder_type, today + days), {})

SendReminder(i, activity_fails, message_fails) ==
    /\ i \in 1..Len(reminders)
    /\ CommitRem("reminder_send",
                 ActionSendReminder(DB, i, activity_fails, message_fails),
                 IF activity_fails \/ message_fails THEN {i} ELSE {})

DismissReminder(i) ==
    /\ i \in 1..Len(reminders)
    /\ CommitRem("reminder_dismiss", Ok(ActionDismiss(DB, i)), {})

NextRem ==
    \/ \E l \in LineInputs : AddLine(l[1], l[2], l[3])
    \/ ConfirmInvoice
    \/ \E a \in Amounts : RecordPayment(a)
    \/ CancelInvoice
    \/ SetToDraft
    \/ RunCreateReminders
    \/ \E af, mf \in SUBSET PendingDue(reminders, today) : RunSendReminders(af, mf)
    \/ RunCleanup
    \/ \E m \in ManualReminderInputs : CreateReminder(m[1], m[2])
    \/ \E i \in 1..Len(reminders), af, mf \in BOOLEAN : SendReminder(i, af, mf)
    \/ \E i \in 1..Len(reminders) : DismissReminder(i)

SpecRem == InitRem /\ [][NextRem]_vars

----------------------------------------------------------------------------
\* The amounts of an invoice under edits of its lines and of its discount.

AddTotLine(product, quantity, price_unit) ==
    /\ Len(invoice.invoice_line_ids) < MaxCommLines
    /\ Commit("line_create", 0, LineCreate(DB, product, quantity, price_unit))

WriteQuantity(i, quantity) ==
    /\ i \in 1..Len(invoice.invoice_line_ids)
    /\ quantity # invoice.invoice_line_ids[i].quantity
    /\ Commit("line_write", 0, LineWriteQuantity(DB, i, quantity))

NextTot ==
    \/ \E l \in TotLineInputs : AddTotLine(l[1], l[2], l[3])
    \/ \E i \in 1..MaxCommLines : RemoveLine(i)
    \/ \E i \in 1..MaxCommLines, q \in TotQuantities : WriteQuantity(i, q)
    \/ \E d \in TotDiscountInputs : WriteDiscount(d)

SpecTot == Init /\ [][NextTot]_vars

----------------------------------------------------------------------------
\* Properties

PaidSum == SumAmounts(payments, ConfirmedPayments(payments))

\* C1: immediately after an operation in which a payment became confirmed
\* (Payment.create, directly or from the confirmation of a cash invoice), the
\* sum of the confirmed payments of the invoice is at most the invoice total.
C1_SequentialOverpaymentSafety ==
    (/\ last.ok
     /\ \/ last.op = "payment_create"
        \/ last.op = "invoice_confirm" /\ invoice.payment_type = "cash")
    => PaidSum <= invoice.total

C1_Witness ==
    /\ last.op = "payment_create"
    /\ last.ok
    /\ Cardinality(ConfirmedPayments(payments)) = 2
    /\ PaidSum = invoice.total

\* C2: recording a payment returns only if 0 < amount <= remaining_amount as
\* stored before the call; with amount <= 0 or amount > remaining_amount it
\* raises, no payment is added and the invoice (paid_amount,
\* remaining_amount, payment_progress, state) is what it was.
C2_PaymentGuard ==
    [][last'.op = "payment_create" =>
        /\ last'.ok =>
              (0 < last'.amount /\ last'.amount <= invoice.remaining_amount)
        /\ (last'.amount <= 0 \/ last'.amount > invoice.remaining_amount) =>
              /\ ~last'.ok
              /\ payments' = payments
              /\ invoice'.paid_amount = invoice.paid_amount
              /\ invoice'.remaining_amount = invoice.remaining_amount
              /\ invoice'.payment_progress = invoice.payment_progress
              /\ invoice'.state = invoice.state]_vars

C2_Witness ==
    /\ last.op = "payment_create"
    /\ ~last.ok
    /\ last.amount > invoice.remaining_amount
    /\ invoice.remaining_amount > 0
    /\ invoice.state = "partial"

\* C3: in every state, paid_amount is the sum of the amounts of the payments
\* in state confirmed and remaining_amount is total - paid_amount.
C3_LedgerConsistency ==
    /\ invoice.paid_amount = PaidSum
    /\ invoice.remaining_amount = invoice.total - invoice.paid_amount

C3_Witness ==
    /\ last.op = "payment_cancel"
    /\ \E i, j \in PaymentIds :
          /\ payments[i].state = "cancelled"
          /\ payments[j].state = "confirmed"
    /\ invoice.paid_amount > 0

\* C4: after a payment is recorded on an invoice that was confirmed, partial
\* or overdue, if the recomputed remaining_amount is <= 0 the invoice is paid.
C4_AutomaticSettlement ==
    (/\ last.op = "payment_create"
     /\ last.ok
     /\ last.from \in {"confirmed", "partial", "overdue"}
     /\ invoice.remaining_amount <= 0)
    => invoice.state = "paid"

C4_Witness ==
    /\ last.op = "payment_create"
    /\ last.ok
    /\ last.from = "partial"
    /\ Cardinality(ConfirmedPayments(payments)) = 2
    /\ invoice.remaining_amount = 0
    /\ invoice.total > 0
    /\ invoice.state = "paid"

\* C5: after a payment is recorded on an invoice that was confirmed or
\* overdue, if paid_amount > 0 and remaining_amount > 0 the invoice is partial
\* and payment_progress is paid_amount / total * 100.
C5_AutomaticPartial ==
    (/\ last.op = "payment_create"
     /\ last.ok
     /\ last.from \in {"confirmed", "overdue"}
     /\ invoice.paid_amount > 0
     /\ invoice.remaining_amount > 0)
    => /\ invoice.state = "partial"
       /\ invoice.payment_progress.num * invoice.total
              = invoice.paid_amount * 100 * invoice.payment_progress.den

C5_Witness ==
    /\ last.op = "payment_create"
    /\ last.ok
    /\ last.from = "overdue"
    /\ invoice.state = "partial"
    /\ invoice.paid_amount > 0
    /\ invoice.remaining_amount > 0
    /\ invoice.payment_progress = Frac(50, 1)

\* C6: after the cancellation of a confirmed payment, paid_amount is reduced
\* by its amount, an invoice that was paid and has remaining_amount > 0 is no
\* longer paid, and an invoice that was partial and has paid_amount = 0 is no
\* longer partial.
C6_CancelRederivesStatus ==
    [][(/\ last'.op = "payment_cancel"
        /\ \E id \in PaymentIds :
              /\ payments[id].state = "confirmed"
              /\ payments'[id].state = "cancelled")
       => /\ \E id \in PaymentIds :
                /\ payments[id].state = "confirmed"
                /\ payments'[id].state = "cancelled"
                /\ invoice'.paid_amount = invoice.paid_amount - payments[id].amount
          /\ (invoice.state = "paid" /\ invoice'.remaining_amount > 0)
                => invoice'.state # "paid"
          /\ (invoice.state = "partial" /\ invoice'.paid_amount = 0)
                => invoice'.state # "partial"]_vars

\* C7: in every reachable state, a paid invoice has remaining_amount <= 0 and
\* a partial invoice has paid_amount > 0 and remaining_amount > 0.
C7_NoStatusDivergence ==
    /\ invoice.state = "paid" => invoice.remaining_amount <= 0
    /\ invoice.state = "partial" =>
          (invoice.paid_amount > 0 /\ invoice.remaining_amount > 0)

\* C8: under interleaved payment creations on one invoice, the sum of the
\* confirmed payments never exceeds the invoice total.
C8_ConcurrentPaymentSafety ==
    SumAmounts(payments, {i \in PaymentIds : payments[i].state = "confirmed"})
        <= invoice.total

\* C9: confirming a draft cash invoice with at least one line returns, adds
\* exactly one confirmed payment of the invoice total, and leaves the invoice
\* paid with remaining_amount = 0.
C9_CashConfirmation ==
    [][(/\ last'.op = "invoice_confirm"
        /\ invoice.state = "draft"
        /\ invoice.payment_type = "cash"
        /\ invoice.invoice_line_ids # <<>>)
       => /\ last'.ok
          /\ \E id \in PaymentIds :
                /\ payments[id] = NoPayment
                /\ payments' = [payments EXCEPT ![id] =
                                   [amount |-> invoice.total, state |-> "confirmed"]]
          /\ invoice'.remaining_amount = 0
          /\ invoice'.state = "paid"]_vars

\* C10: confirming an invoice without lines raises and changes nothing: the
\* invoice (its state included), the commissions and the payments are kept.
C10_ConfirmWithoutLines ==
    [][(last'.op = "invoice_confirm" /\ invoice.invoice_line_ids = <<>>)
       => /\ ~last'.ok
          /\ invoice' = invoice
          /\ commissions' = commissions
          /\ payments' = payments]_vars

C10_Witness ==
    /\ last.op = "invoice_confirm"
    /\ ~last.ok
    /\ invoice.invoice_line_ids = <<>>
    /\ invoice.state = "draft"
    /\ last.from = "draft"

\* C11: an invoice enters status confirmed solely from draft: no step takes
\* an invoice that is partial, paid, overdue or cancelled to confirmed, so
\* confirming an invoice that has left draft never sets it to confirmed.
C11_ConfirmOnlyFromDraft ==
    [][(invoice'.state = "confirmed" /\ invoice.state # "confirmed")
          => invoice.state = "draft"]_vars

\* C12: action_set_to_draft takes a confirmed, partial, paid or overdue
\* invoice to draft, and no step takes a cancelled invoice to draft.
C12_ResetToDraft ==
    [][/\ (last'.op = "set_to_draft" /\ invoice.state # "cancelled")
             => invoice'.state = "draft"
       /\ invoice.state = "cancelled" => invoice'.state # "draft"]_vars

\* C13: after action_cancel, from whatever status, the invoice is cancelled,
\* it has no commission record and no payment record, its paid amount is 0
\* and its remaining amount is its total.
C13_CancellationCascade ==
    last.op = "invoice_cancel" =>
        /\ invoice.state = "cancelled"
        /\ commissions = <<>>
        /\ \A id \in PaymentIds : payments[id] = NoPayment
        /\ invoice.paid_amount = 0
        /\ invoice.remaining_amount = invoice.total

\* A partially paid invoice with a positive total has been cancelled.
C13_Witness ==
    /\ last.op = "invoice_cancel"
    /\ last.from = "partial"
    /\ invoice.total > 0
    /\ invoice.state = "cancelled"

LineCommission(line) ==
    (line.price_unit - GetPriceByTier(line.product_id, "bayu")) * line.quantity

EarningLines ==
    SelectSeq(invoice.invoice_line_ids, LAMBDA line : LineCommission(line) > 0)

\* C14: after a confirmation the commission records are, in order, one per
\* line whose commission amount is positive, each with the line's product,
\* quantity and unit price, the 'bayu' cost and that amount; a line with a
\* zero or negative margin has none.
C14_CommissionGeneration ==
    (last.op = "invoice_confirm" /\ last.ok) =>
        /\ Len(commissions) = Len(EarningLines)
        /\ \A k \in 1..Len(commissions) :
              /\ commissions[k].product_id = EarningLines[k].product_id
              /\ commissions[k].quantity = EarningLines[k].quantity
              /\ commissions[k].selling_price = EarningLines[k].price_unit
              /\ commissions[k].cost_price =
                     GetPriceByTier(EarningLines[k].product_id, "bayu")
              /\ commissions[k].commission_amount = LineCommission(EarningLines[k])
              /\ commissions[k].commission_amount > 0

\* Confirmed with two lines, of which only the one of the product without a
\* 'bayu' price earns a commission.
C14_Witness ==
    /\ last.op = "invoice_confirm"
    /\ last.ok
    /\ Len(invoice.invoice_line_ids) = 2
    /\ Len(commissions) = 1
    /\ commissions[1].cost_price = 0

\* C15: after each confirmation, the first or a later one, the commission
\* records are what one generation from the current lines produces: no
\* record of an earlier confirmation is left and none is duplicated.
C15_CommissionRegeneration ==
    (last.op = "invoice_confirm" /\ last.ok) =>
        commissions = CommissionsOf(invoice.invoice_line_ids)

\* Confirmed again after the lines changed: the invoice had more commission
\* records before this confirmation than it has now.
C15_Witness ==
    /\ last.op = "invoice_confirm"
    /\ last.ok
    /\ last.prior > Len(commissions)
    /\ commissions # <<>>

\* The types of the reminders of the invoice dated today.
TodayTypes ==
    {reminders[i].reminder_type :
        i \in {j \in 1..Len(reminders) : reminders[j].reminder_date = today}}

\* C16: the invoice never has two reminders of the same type and date, and
\* a run of the create-reminders sweep that directly follows another run,
\* the invoice untouched in between, creates no reminder.
C16_ReminderCreationIdempotent ==
    [][/\ \A i, j \in 1..Len(reminders') :
             (/\ reminders'[i].reminder_type = reminders'[j].reminder_type
              /\ reminders'[i].reminder_date = reminders'[j].reminder_date)
                 => i = j
       /\ (last.op = "cron_create_reminders" /\ last'.op = "cron_create_reminders")
             => reminders' = reminders]_vars

\* A run of the sweep on an invoice due today, which has its daily and its
\* due-date reminder from an earlier run, created nothing.
C16_Witness ==
    /\ last.op = "cron_create_reminders"
    /\ last.from \in {"confirmed", "partial", "overdue"}
    /\ last.changed = {}
    /\ TodayTypes = {"daily", "due_date"}

\* C17: after a run of the create-reminders sweep on a tempo invoice that
\* was confirmed, partial or overdue and has a due date, with d the number
\* of days from today to the due date, the reminders dated today are: an
\* overdue one when d < 0; a daily one when 0 <= d <= 14, and with it a
\* 7_days, 3_days or due_date one when d is 7, 3 or 0; none when d > 14.
\* Each of them records d as its days before due.
C17_ReminderCadence ==
    (/\ last.op = "cron_create_reminders"
     /\ invoice.payment_type = "tempo"
     /\ last.from \in {"confirmed", "partial", "overdue"}
     /\ invoice.date_due # NoDate)
        => LET d == invoice.date_due[1] - today
           IN /\ TodayTypes =
                    (IF d < 0 THEN {"overdue"} ELSE {})
                        \cup (IF 0 <= d /\ d <= 14 THEN {"daily"} ELSE {})
                        \cup (IF d = 7 THEN {"7_days"} ELSE {})
                        \cup (IF d = 3 THEN {"3_days"} ELSE {})
                        \cup (IF d = 0 THEN {"due_date"} ELSE {})
              /\ \A i \in 1..Len(reminders) :
                    reminders[i].reminder_date = today
                        => reminders[i].days_before_due = d

\* The sweep created a daily and a 7_days reminder.
C17_Witness ==
    /\ last.op = "cron_create_reminders"
    /\ Cardinality(last.changed) = 2
    /\ TodayTypes = {"daily", "7_days"}

\* C19: over a run of the send sweep, every reminder that was pending with
\* a date of today or earlier becomes sent, whichever deliveries fail, and
\* every other reminder, those dated after today among them, is unchanged.
C19_SendSweep ==
    [][last'.op = "cron_send_reminders" =>
        /\ Len(reminders') = Len(reminders)
        /\ \A i \in 1..Len(reminders) :
              IF /\ reminders[i].state = "pending"
                 /\ reminders[i].reminder_date <= today
              THEN reminders'[i] = [reminders[i] EXCEPT !.state = "sent"]
              ELSE reminders'[i] = reminders[i]]_vars

\* The send sweep sent two reminders, the delivery of one of which failed,
\* and a pending reminder dated after today is left.
C19_Witness ==
    /\ last.op = "cron_send_reminders"
    /\ Cardinality(last.changed) = 2
    /\ last.failed # {}
    /\ last.failed \subseteq last.changed
    /\ \A i \in last.changed : reminders[i].state = "sent"
    /\ \E i \in 1..Len(reminders) :
          reminders[i].state = "pending" /\ reminders[i].reminder_date > today

\* C20: over a run of the cleanup sweep, the pending reminders of a paid
\* invoice become dismissed, so that none is pending afterwards, and every
\* other reminder (sent, dismissed, or of an invoice that is not paid) is
\* unchanged.
C20_CleanupSweep ==
    [][last'.op = "cron_cleanup_paid_invoices" =>
        /\ Len(reminders') = Len(reminders)
        /\ invoice.state = "paid" =>
              \A i \in 1..Len(reminders') : reminders'[i].state # "pending"
        /\ \A i \in 1..Len(reminders) :
              IF invoice.state = "paid" /\ reminders[i].state = "pending"
              THEN reminders'[i] = [reminders[i] EXCEPT !.state = "dismissed"]
              ELSE reminders'[i] = reminders[i]]_vars

\* The cleanup sweep dismissed a reminder of a paid invoice that also has a
\* sent reminder.
C20_Witness ==
    /\ last.op = "cron_cleanup_paid_invoices"
    /\ invoice.state = "paid"
    /\ last.changed # {}
    /\ \A i \in last.changed : reminders[i].state = "dismissed"
    /\ \E i \in 1..Len(reminders) : reminders[i].state = "sent"

\* C21: a payment is recorded only on an invoice that is confirmed, partial
\* or overdue and has a positive remaining amount: Payment.create on any
\* other invoice raises and records no confirmed payment.
C21_PaymentsOnlyOnOpenInvoices ==
    [][(/\ last'.op = "payment_create"
        /\ \/ invoice.state \notin {"confirmed", "partial", "overdue"}
           \/ invoice.remaining_amount <= 0)
          => /\ ~last'.ok
             /\ ConfirmedPayments(payments') = ConfirmedPayments(payments)]_vars

\* C23: the due date of a tempo invoice is its issue date plus its term,
\* whatever the term (0 days included); a cash invoice has no due date.
C23_DueDateDerivation ==
    IF invoice.payment_type = "tempo"
    THEN invoice.date_due = <<invoice.date_invoice + invoice.payment_term_days>>
    ELSE invoice.date_due = NoDate

\* C24: the lines of an invoice, its subtotal and its total change only
\* while the invoice is in status draft.
C24_LinesFrozenAfterConfirmation ==
    [][invoice.state # "draft" =>
        /\ invoice'.invoice_line_ids = invoice.invoice_line_ids
        /\ invoice'.subtotal = invoice.subtotal
        /\ invoice'.total = invoice.total]_vars

\* C25: a run of the create-reminders sweep on an invoice that is cash, or
\* in status draft, paid or cancelled, or without a due date, creates no
\* reminder and leaves the invoice as it is.
C25_SweepEligibility ==
    [][(/\ last'.op = "cron_create_reminders"
        /\ \/ invoice.payment_type # "tempo"
           \/ invoice.state \notin {"confirmed", "partial", "overdue"}
           \/ invoice.date_due = NoDate)
          => /\ reminders' = reminders
             /\ invoice' = invoice]_vars

\* The sweep ran over a paid tempo invoice whose due date has passed.
C25_Witness ==
    /\ last.op = "cron_create_reminders"
    /\ last.from = "paid"
    /\ invoice.state = "paid"
    /\ invoice.payment_type = "tempo"
    /\ invoice.date_due # NoDate
    /\ invoice.date_due[1] < today
    /\ TodayTypes = {}

\* C26: a reminder that is sent stays sent and a reminder that is dismissed
\* stays dismissed, whatever is called on it.
C26_ReminderLifecycle ==
    [][\A i \in 1..Len(reminders) :
          reminders[i].state \in {"sent", "dismissed"}
              => reminders'[i].state = reminders[i].state]_vars

\* C27: a stored payment is never taken back to draft, a confirmed payment
\* stays confirmed or becomes cancelled, a cancelled payment stays
\* cancelled (each until it is deleted), and payment confirmation called
\* on cancelled payments leaves the payments and the paid amount as they are.
C27_PaymentLifecycle ==
    [][/\ \A id \in PaymentIds :
             /\ payments[id].state = "confirmed"
                    => payments'[id].state \in {"confirmed", "cancelled", "none"}
             /\ payments[id].state = "cancelled"
                    => payments'[id].state \in {"cancelled", "none"}
       /\ (/\ last'.op = "payment_confirm"
           /\ \A id \in PaymentIds : payments[id].state \in {"cancelled", "none"})
              => /\ payments' = payments
                 /\ invoice'.paid_amount = invoice.paid_amount]_vars

\* Payment confirmation was called on a cancelled payment of an invoice
\* with a positive total whose payments are all cancelled: it counts nothing.
C27_Witness ==
    /\ last.op = "payment_confirm"
    /\ last.ok
    /\ \E id \in PaymentIds : payments[id].state = "cancelled"
    /\ \A id \in PaymentIds : payments[id].state \in {"cancelled", "none"}
    /\ invoice.total > 0
    /\ invoice.paid_amount = 0

\* C28: no stored payment is in status draft; Payment.create either returns
\* with exactly one new payment, confirmed, of the amount given, or raises
\* and leaves the payments as they were.
C28_NoDraftPayment ==
    [][/\ \A id \in PaymentIds : payments'[id].state # "draft"
       /\ last'.op = "payment_create" =>
             IF last'.ok
             THEN \E id \in PaymentIds :
                     /\ payments[id] = NoPayment
                     /\ payments' = [payments EXCEPT ![id] =
                            [amount |-> last'.amount, state |-> "confirmed"]]
             ELSE payments' = payments]_vars

\* Payment.create with an amount above the remaining amount raised on an
\* invoice that has a confirmed payment: that payment is all there is.
C28_Witness ==
    /\ last.op = "payment_create"
    /\ ~last.ok
    /\ last.amount > invoice.remaining_amount
    /\ invoice.remaining_amount > 0
    /\ Cardinality(ConfirmedPayments(payments)) = 1
    /\ \A id \in PaymentIds : payments[id].state \in {"confirmed", "none"}

\* C29: a run of the send sweep while the invoice is paid or cancelled
\* marks no reminder sent.
C29_SentOnlyForUnsettled ==
    [][(last'.op = "cron_send_reminders" /\ invoice.state \in {"paid", "cancelled"})
          => reminders' = reminders]_vars

\* C30: an invoice with a line that was confirmed and then returned to
\* draft is confirmed again successfully, and ends paid when its confirmed
\* payments cover its total, partial when they cover part of it, and
\* confirmed when there is none.
C30_EditAndReconfirm ==
    [][(/\ last'.op = "invoice_confirm"
        /\ last.op = "set_to_draft"
        /\ last.from \in {"confirmed", "partial", "paid", "overdue"}
        /\ invoice.invoice_line_ids # <<>>)
          => /\ last'.ok
             /\ invoice'.state =
                   IF invoice'.remaining_amount <= 0 THEN "paid"
                   ELSE IF invoice'.paid_amount > 0 THEN "partial"
                   ELSE "confirmed"]_vars

RECURSIVE SumQuantityPrice(_)
SumQuantityPrice(lines) ==
    IF lines = <<>> THEN 0
    ELSE Head(lines).quantity * Head(lines).price_unit
             + SumQuantityPrice(Tail(lines))

\* C22: the subtotal of the invoice is the sum of quantity * unit price
\* over its lines, its discount amount is subtotal * discount_percent / 100
\* and its total is subtotal - discount amount, after every edit of a line
\* or of the discount.
C22_InvoiceTotals ==
    /\ invoice.subtotal = SumQuantityPrice(invoice.invoice_line_ids)
    /\ invoice.discount_amount * 100 = invoice.subtotal * invoice.discount_percent
    /\ invoice.total = invoice.subtotal - invoice.discount_amount

\* A discount of 25 percent was written on an invoice of two lines.
C22_Witness ==
    /\ last.op = "write_discount"
    /\ invoice.discount_percent = 25
    /\ Len(invoice.invoice_line_ids) = 2
    /\ invoice.discount_amount > 0
    /\ invoice.total > 0
====
